---- MODULE Spec2Model ----
(***************************************************************************)
(* Model of src/api.py: the lifespan() context manager of the FastAPI      *)
(* application (startup sequence, yield, shutdown sequence), the           *)
(* background tasks it creates with asyncio.create_task, and the           *)
(* _memory_watchdog coroutine.                                             *)
(*                                                                         *)
(* pc is the statement lifespan() is about to execute or is suspended in.  *)
(* Scheduling is cooperative (one asyncio event loop): a background task   *)
(* takes a step only while lifespan() is suspended at an await or at the   *)
(* yield.  Every call into another module (db.initialize, init_db, ...)    *)
(* either returns or raises an Exception; which one is an input.           *)
(***************************************************************************)
EXTENDS Integers, Sequences, FiniteSets, TLC

\* Bound on the iterations of the watchdog loop that are counted.
MaxRuns == 2

\* asyncio.sleep(2), src/api.py:134
GracePeriod == 2

\* Longest request path, in segments, the path rewrite is applied to.
MaxSegs == 6

\* Number of times the path rewrite is applied in a row to one path.
MaxApply == 2

\* Longest request path, in segments, sent through the middleware stack.
MaxReqSegs == 3

\* Requests served one after the other by the same worker.
MaxRequests == 2

\* Longest time, in ticks, the route handler takes.
MaxDuration == 2

\* The statements of the startup half of lifespan(), in program order.
StartupOrder ==
  << "db_initialize", "init_db", "select_1", "warm_up_tools_cache",
     "load_static_suna_config", "sandbox_initialize", "redis_initialize",
     "cleanup_orphaned", "triggers_initialize", "credentials_initialize",
     "template_initialize", "composio_initialize", "spawn_metrics",
     "spawn_stream_cleanup", "spawn_watchdog", "spawn_pool",
     "lifecycle_initialize" >>

\* The statements of the shutdown half of lifespan(), in program order.
ShutdownOrder ==
  << "sleep", "cancel_tasks", "redis_close", "db_disconnect", "close_db" >>

\* Calls whose exception reaches the outer except clause (log, re-raise).
RequiredSteps ==
  { "db_initialize", "init_db", "warm_up_tools_cache",
    "load_static_suna_config", "sandbox_initialize", "triggers_initialize",
    "credentials_initialize", "template_initialize", "composio_initialize",
    "lifecycle_initialize" }

\* Calls wrapped in their own  try: ... except Exception: pass.
BestEffortSteps == { "select_1", "redis_initialize", "cleanup_orphaned" }

\* The asyncio.create_task statements.
SpawnSteps ==
  { "spawn_metrics", "spawn_stream_cleanup", "spawn_watchdog", "spawn_pool" }

\* The resource-close calls of the shutdown half.
CloseSteps == { "redis_close", "db_disconnect", "close_db" }

\* The background tasks lifespan() creates.
Tasks == { "worker_metrics", "stream_cleanup", "memory_watchdog", "pool_service" }

\* The module-level globals that keep a task handle.
Handles == { "worker_metrics", "stream_cleanup", "memory_watchdog" }

\* Tasks whose coroutine is defined outside api.py.
ExternalTasks == { "worker_metrics", "stream_cleanup", "pool_service" }

\* Resource handles: DBConnection, the core.services.db pool, the redis client.
Resources == { "db", "pool", "cache" }

\* Statements at which lifespan() is suspended and the event loop runs tasks.
AwaitPoints ==
  { "lifecycle_initialize", "yield", "sleep", "redis_close", "db_disconnect",
    "close_db" }

\* A task that has been created and has not ended.
Alive == { "running", "cancelling" }

\* A task that has ended, whatever the way.
Ended == { "finished", "cancelled", "failed" }

VARIABLES
  pc,                \* position of lifespan()
  production,        \* config.ENV_MODE == EnvMode.PRODUCTION
  attempted,         \* statements of lifespan() that have been executed
  failed,            \* statements whose call raised
  ready,             \* lifespan() has reached its yield
  is_shutting_down,  \* global _is_shutting_down
  handle,            \* globals _worker_metrics_task, _stream_cleanup_task, _memory_watchdog_task
  tasks,             \* state of each background task
  watchdog_runs,     \* completed iterations of the watchdog loop
  sleep_left,        \* time units left of the grace-period sleep
  res,               \* state of each resource handle
  acquireLog,        \* resources in the order they were acquired
  closeLog,          \* close calls in the order they were made
  logged,            \* logger.error calls made by lifespan()
  err,               \* exception that left lifespan(), or "none"
  req_path,          \* request.url.path as received, a sequence of segments
  scope_path,        \* request.scope["path"]
  applied,           \* times the path rewrite has been applied to scope_path
  req_no,            \* requests received so far
  dir,               \* "down" the stack, "up" with the result, "done", or "idle"
  depth,             \* middlewares of the stack the request is inside of
  clock,             \* time since the request was received (time.time())
  start_time,        \* start_time of log_requests_middleware
  handled,           \* what the routed handler produced: status or exception, duration
  response,          \* status of the response travelling up, 0 when none
  raised_exc,        \* exception travelling up, "none" when none
  routed_path,       \* path the router matched against
  req_log,           \* logger.error calls made for the request
  process_time,      \* process_time of log_requests_middleware
  ctx                \* structlog contextvars: requests whose handler bound some

vars ==
  << pc, production, attempted, failed, ready, is_shutting_down, handle,
     tasks, watchdog_runs, sleep_left, res, acquireLog, closeLog, logged, err,
     req_path, scope_path, applied, req_no, dir, depth, clock, start_time,
     handled, response, raised_exc, routed_path, req_log, process_time, ctx >>

\* The state of the request inside the middleware stack.
pipelineVars ==
  << req_no, dir, depth, clock, start_time, handled, response, raised_exc,
     routed_path, req_log, process_time, ctx >>

\* The state of the request being served.
requestVars == << req_path, scope_path, applied, pipelineVars >>

\* The route handler has not run.
NotHandled == [status |-> 0, exc |-> "none", dur |-> 0]

\* No request is inside the middleware stack and none has been.
PipelineIdle ==
  /\ req_no = 0
  /\ dir = "idle"
  /\ depth = 0
  /\ clock = 0
  /\ start_time = 0
  /\ handled = NotHandled
  /\ response = 0
  /\ raised_exc = "none"
  /\ routed_path = << >>
  /\ req_log = << >>
  /\ process_time = 0
  /\ ctx = {}

\* No request is being served.
RequestIdle ==
  /\ req_path = << >>
  /\ scope_path = << >>
  /\ applied = 0
  /\ PipelineIdle

\* Position of a statement in a program-order sequence (0 when absent).
IndexOf(seq, s) ==
  IF \E i \in 1..Len(seq) : seq[i] = s
  THEN CHOOSE i \in 1..Len(seq) : seq[i] = s
  ELSE 0

\* The statement that follows s in the startup half; the yield after the last.
Succ(s) ==
  IF IndexOf(StartupOrder, s) < Len(StartupOrder)
  THEN StartupOrder[IndexOf(StartupOrder, s) + 1]
  ELSE "yield"

\* The startup statements ordered after s.
After(s) ==
  { StartupOrder[i] : i \in (IndexOf(StartupOrder, s) + 1)..Len(StartupOrder) }

Init ==
  /\ pc = "db_initialize"
  /\ production \in BOOLEAN
  /\ attempted = {}
  /\ failed = {}
  /\ ready = FALSE
  /\ is_shutting_down = FALSE
  /\ handle = [h \in Handles |-> FALSE]
  /\ tasks = [t \in Tasks |-> "absent"]
  /\ watchdog_runs = 0
  /\ sleep_left = 0
  /\ res = [r \in Resources |-> "Uninitialized"]
  /\ acquireLog = << >>
  /\ closeLog = << >>
  /\ logged = << >>
  /\ err = "none"
  /\ RequestIdle

\* The except clause without its raise: the error is logged and dropped.
ExceptHandler_noraise(s) ==
  /\ logged' = Append(logged, s)
  /\ err' = "none"
  /\ pc' = "stopped"

\* The except clause continuing into the shutdown statements, as a
\* try/finally would, before the error leaves.
ExceptHandler_cleanup(s) ==
  /\ logged' = Append(logged, s)
  /\ err' = s
  /\ pc' = "cancel_tasks"

\* except Exception as e: logger.error(...); raise
ExceptHandler(s) ==
  /\ logged' = Append(logged, s)
  /\ err' = s
  /\ pc' = "raised"

\* A call outside any inner try: an exception goes to the outer except clause.
Required(s, ok, nxt) ==
  /\ attempted' = attempted \cup {s}
  /\ IF ok
     THEN /\ pc' = nxt
          /\ UNCHANGED << failed, logged, err >>
     ELSE /\ failed' = failed \cup {s}
          /\ ExceptHandler(s)

\* A call inside  try: ... except Exception: pass : an exception is dropped.
BestEffort(s, ok, nxt) ==
  /\ attempted' = attempted \cup {s}
  /\ pc' = nxt
  /\ failed' = IF ok THEN failed ELSE failed \cup {s}
  /\ UNCHANGED << logged, err >>

\* A resource becomes Ready when its acquiring call returns.
Acquire(r, ok) ==
  /\ res' = IF ok THEN [res EXCEPT ![r] = "Ready"] ELSE res
  /\ acquireLog' = IF ok THEN Append(acquireLog, r) ELSE acquireLog

\* asyncio.create_task(...): the task exists and is scheduled from here on.
CreateTask(t) ==
  tasks' = [tasks EXCEPT ![t] = "running"]

\* Variables no statement of the startup half touches.
shutdownVars ==
  << is_shutting_down, watchdog_runs, sleep_left, closeLog, requestVars >>

\* A startup call with no effect on the modelled state besides its outcome.
PlainRequired(s) ==
  /\ pc = s
  /\ \E ok \in BOOLEAN : Required(s, ok, Succ(s))
  /\ UNCHANGED << production, ready, handle, tasks, res, acquireLog >>
  /\ UNCHANGED shutdownVars

\* await db.initialize()
DbInitialize ==
  /\ pc = "db_initialize"
  /\ \E ok \in BOOLEAN :
       /\ Required("db_initialize", ok, Succ("db_initialize"))
       /\ Acquire("db", ok)
  /\ UNCHANGED << production, ready, handle, tasks >>
  /\ UNCHANGED shutdownVars

\* init_db with its exception dropped instead of propagated.
InitDb_swallow ==
  /\ pc = "init_db"
  /\ \E ok \in BOOLEAN :
       /\ BestEffort("init_db", ok, Succ("init_db"))
       /\ Acquire("pool", ok)
  /\ UNCHANGED << production, ready, handle, tasks >>
  /\ UNCHANGED shutdownVars

\* from core.services.db import init_db; await init_db()
InitDb ==
  /\ pc = "init_db"
  /\ \E ok \in BOOLEAN :
       /\ Required("init_db", ok, Succ("init_db"))
       /\ Acquire("pool", ok)
  /\ UNCHANGED << production, ready, handle, tasks >>
  /\ UNCHANGED shutdownVars

\* try: await execute_one("SELECT 1", {})  except Exception: pass
Select1 ==
  /\ pc = "select_1"
  /\ \E ok \in BOOLEAN : BestEffort("select_1", ok, Succ("select_1"))
  /\ UNCHANGED << production, ready, handle, tasks, res, acquireLog >>
  /\ UNCHANGED shutdownVars

\* warm_up_tools_cache()
WarmUpToolsCache == PlainRequired("warm_up_tools_cache")

\* load_static_suna_config()
LoadStaticSunaConfig == PlainRequired("load_static_suna_config")

\* sandbox_api.initialize(db)
SandboxInitialize == PlainRequired("sandbox_initialize")

\* try: await redis.initialize_async()  except Exception: pass
RedisInitialize ==
  /\ pc = "redis_initialize"
  /\ \E ok \in BOOLEAN :
       /\ BestEffort("redis_initialize", ok, Succ("redis_initialize"))
       /\ Acquire("cache", ok)
  /\ UNCHANGED << production, ready, handle, tasks >>
  /\ UNCHANGED shutdownVars

\* The orphan cleanup without its try/except: an exception propagates.
CleanupOrphaned_unguarded ==
  /\ pc = "cleanup_orphaned"
  /\ \E ok \in BOOLEAN : Required("cleanup_orphaned", ok, Succ("cleanup_orphaned"))
  /\ UNCHANGED << production, ready, handle, tasks, res, acquireLog >>
  /\ UNCHANGED shutdownVars

\* try: client = await db.client; await cleanup_orphaned_agent_runs(client)
\* except Exception: pass
CleanupOrphaned ==
  /\ pc = "cleanup_orphaned"
  /\ \E ok \in BOOLEAN : BestEffort("cleanup_orphaned", ok, Succ("cleanup_orphaned"))
  /\ UNCHANGED << production, ready, handle, tasks, res, acquireLog >>
  /\ UNCHANGED shutdownVars

\* triggers_api.initialize(db)
TriggersInitialize == PlainRequired("triggers_initialize")

\* credentials_api.initialize(db)
CredentialsInitialize == PlainRequired("credentials_initialize")

\* template_api.initialize(db)
TemplateInitialize == PlainRequired("template_initialize")

\* composio_api.initialize(db)
ComposioInitialize == PlainRequired("composio_initialize")

\* Common part of the create_task statements: the statement cannot raise.
SpawnFrame(s) ==
  /\ pc = s
  /\ pc' = Succ(s)
  /\ attempted' = attempted \cup {s}
  /\ UNCHANGED << production, failed, ready, res, acquireLog, logged, err >>
  /\ UNCHANGED shutdownVars

\* if config.ENV_MODE == EnvMode.PRODUCTION:
\*     _worker_metrics_task = asyncio.create_task(start_cloudwatch_publisher())
SpawnMetrics ==
  /\ SpawnFrame("spawn_metrics")
  /\ IF production
     THEN /\ CreateTask("worker_metrics")
          /\ handle' = [handle EXCEPT !["worker_metrics"] = TRUE]
     ELSE UNCHANGED << tasks, handle >>

\* _stream_cleanup_task = asyncio.create_task(start_stream_cleanup_task())
SpawnStreamCleanup ==
  /\ SpawnFrame("spawn_stream_cleanup")
  /\ CreateTask("stream_cleanup")
  /\ handle' = [handle EXCEPT !["stream_cleanup"] = TRUE]

\* _memory_watchdog_task = asyncio.create_task(_memory_watchdog())
SpawnWatchdog ==
  /\ SpawnFrame("spawn_watchdog")
  /\ CreateTask("memory_watchdog")
  /\ handle' = [handle EXCEPT !["memory_watchdog"] = TRUE]

\* asyncio.create_task(start_pool_service()): the handle is not kept.
SpawnPool ==
  /\ SpawnFrame("spawn_pool")
  /\ CreateTask("pool_service")
  /\ UNCHANGED handle

\* lifecycle.initialize with its exception dropped: the yield is reached anyway.
LifecycleInitialize_swallow ==
  /\ pc = "lifecycle_initialize"
  /\ \E ok \in BOOLEAN : BestEffort("lifecycle_initialize", ok, "yield")
  /\ ready' = TRUE
  /\ UNCHANGED << production, handle, tasks, res, acquireLog >>
  /\ UNCHANGED shutdownVars

\* await lifecycle.initialize(), then yield
LifecycleInitialize ==
  /\ pc = "lifecycle_initialize"
  /\ \E ok \in BOOLEAN :
       /\ Required("lifecycle_initialize", ok, "yield")
       /\ ready' = ok
  /\ UNCHANGED << production, handle, tasks, res, acquireLog >>
  /\ UNCHANGED shutdownVars

\* Variables the shutdown statements leave alone unless they say otherwise.
startupVars == << production, ready, handle, acquireLog, requestVars >>

\* The resumption after the yield without the grace-period sleep: the tasks
\* are cancelled at once.
ShutdownSignal_nosleep ==
  /\ pc = "yield"
  /\ is_shutting_down' = TRUE
  /\ sleep_left' = 0
  /\ pc' = "cancel_tasks"
  /\ UNCHANGED << attempted, failed, tasks, watchdog_runs, res, closeLog, logged, err >>
  /\ UNCHANGED startupVars

\* lifespan() is resumed after the yield:  _is_shutting_down = True  and the
\* grace-period sleep begins.
ShutdownSignal ==
  /\ pc = "yield"
  /\ is_shutting_down' = TRUE
  /\ sleep_left' = GracePeriod
  /\ pc' = "sleep"
  /\ UNCHANGED << attempted, failed, tasks, watchdog_runs, res, closeLog, logged, err >>
  /\ UNCHANGED startupVars

\* One time unit of  await asyncio.sleep(2)  passes.
GraceTick ==
  /\ pc = "sleep"
  /\ sleep_left > 0
  /\ sleep_left' = sleep_left - 1
  /\ UNCHANGED << pc, attempted, failed, is_shutting_down, tasks, watchdog_runs,
                  res, closeLog, logged, err >>
  /\ UNCHANGED startupVars

\* await asyncio.sleep(2)  returns.
SleepReturn ==
  /\ pc = "sleep"
  /\ sleep_left = 0
  /\ pc' = "cancel_tasks"
  /\ attempted' = attempted \cup {"sleep"}
  /\ UNCHANGED << failed, is_shutting_down, tasks, watchdog_runs, sleep_left,
                  res, closeLog, logged, err >>
  /\ UNCHANGED startupVars

\* The coroutine is cancelled while suspended in the sleep.  CancelledError
\* derives from BaseException: neither  except Exception  clause catches it,
\* so it leaves lifespan() at once, unlogged.
ForceCancel ==
  /\ pc = "sleep"
  /\ pc' = "raised"
  /\ err' = "CancelledError"
  /\ UNCHANGED << attempted, failed, is_shutting_down, tasks, watchdog_runs,
                  sleep_left, res, closeLog, logged >>
  /\ UNCHANGED startupVars

\* The two globals whose task lifespan() cancels.
CancelledHandles == { "worker_metrics", "memory_watchdog" }

\* if _worker_metrics_task: _worker_metrics_task.cancel()
\* if _memory_watchdog_task: _memory_watchdog_task.cancel()
\* cancel() only requests the cancellation; it is not awaited.
CancelTasks ==
  /\ pc = "cancel_tasks"
  /\ pc' = "redis_close"
  /\ attempted' = attempted \cup {"cancel_tasks"}
  /\ tasks' = [t \in Tasks |->
                 IF t \in CancelledHandles /\ handle[t] /\ tasks[t] = "running"
                 THEN "cancelling"
                 ELSE tasks[t]]
  /\ UNCHANGED << failed, is_shutting_down, watchdog_runs, sleep_left, res,
                  closeLog, logged, err >>
  /\ UNCHANGED startupVars

\* A close call: logged as made; the resource is Closed when it returns.
Close(r, ok) ==
  /\ closeLog' = Append(closeLog, r)
  /\ res' = IF ok THEN [res EXCEPT ![r] = "Closed"] ELSE res

\* try: await redis.close()  except Exception: pass
RedisClose ==
  /\ pc = "redis_close"
  /\ \E ok \in BOOLEAN :
       /\ BestEffort("redis_close", ok, "db_disconnect")
       /\ Close("cache", ok)
  /\ UNCHANGED << is_shutting_down, tasks, watchdog_runs, sleep_left >>
  /\ UNCHANGED startupVars

\* await db.disconnect()
DbDisconnect ==
  /\ pc = "db_disconnect"
  /\ \E ok \in BOOLEAN :
       /\ Required("db_disconnect", ok, "close_db")
       /\ Close("db", ok)
  /\ UNCHANGED << is_shutting_down, tasks, watchdog_runs, sleep_left >>
  /\ UNCHANGED startupVars

\* close_db followed by a reset of the shutdown flag.
CloseDb_resetflag ==
  /\ pc = "close_db"
  /\ \E ok \in BOOLEAN :
       /\ Required("close_db", ok, "stopped")
       /\ Close("pool", ok)
  /\ is_shutting_down' = FALSE
  /\ UNCHANGED << tasks, watchdog_runs, sleep_left >>
  /\ UNCHANGED startupVars

\* from core.services.db import close_db; await close_db()
CloseDb ==
  /\ pc = "close_db"
  /\ \E ok \in BOOLEAN :
       /\ Required("close_db", ok, "stopped")
       /\ Close("pool", ok)
  /\ UNCHANGED << is_shutting_down, tasks, watchdog_runs, sleep_left >>
  /\ UNCHANGED startupVars

\* Variables of lifespan() that no background task touches.
lifespanVars ==
  << pc, production, attempted, failed, ready, is_shutting_down, handle,
     sleep_left, res, acquireLog, closeLog, logged, err, requestVars >>

\* _memory_watchdog: one  await asyncio.sleep(60)  of the loop completes.
WatchdogIterate ==
  /\ pc \in AwaitPoints
  /\ tasks["memory_watchdog"] = "running"
  /\ watchdog_runs < MaxRuns
  /\ watchdog_runs' = watchdog_runs + 1
  /\ UNCHANGED tasks
  /\ UNCHANGED lifespanVars

\* Delivery of the cancellation with no  except asyncio.CancelledError  in the
\* watchdog: the CancelledError leaves the coroutine.
TaskObserveCancel_reraise(t) ==
  /\ pc \in AwaitPoints
  /\ tasks[t] = "cancelling"
  /\ tasks' = [tasks EXCEPT ![t] = "cancelled"]
  /\ UNCHANGED watchdog_runs
  /\ UNCHANGED lifespanVars

\* The requested cancellation is delivered at the task's suspension point.
\* _memory_watchdog catches CancelledError and returns; for the tasks defined
\* elsewhere the task ends cancelled.
TaskObserveCancel(t) ==
  /\ pc \in AwaitPoints
  /\ tasks[t] = "cancelling"
  /\ tasks' = [tasks EXCEPT ![t] = IF t = "memory_watchdog" THEN "finished"
                                                             ELSE "cancelled"]
  /\ UNCHANGED watchdog_runs
  /\ UNCHANGED lifespanVars

\* A task defined outside api.py returns or raises on its own; the exception
\* stays in the Task object.
TaskExit(t) ==
  /\ pc \in AwaitPoints
  /\ t \in ExternalTasks
  /\ tasks[t] = "running"
  /\ \E outcome \in { "finished", "failed" } :
       tasks' = [tasks EXCEPT ![t] = outcome]
  /\ UNCHANGED watchdog_runs
  /\ UNCHANGED lifespanVars

Next ==
  \/ DbInitialize
  \/ InitDb
  \/ Select1
  \/ WarmUpToolsCache
  \/ LoadStaticSunaConfig
  \/ SandboxInitialize
  \/ RedisInitialize
  \/ CleanupOrphaned
  \/ TriggersInitialize
  \/ CredentialsInitialize
  \/ TemplateInitialize
  \/ ComposioInitialize
  \/ SpawnMetrics
  \/ SpawnStreamCleanup
  \/ SpawnWatchdog
  \/ SpawnPool
  \/ LifecycleInitialize
  \/ ShutdownSignal
  \/ GraceTick
  \/ SleepReturn
  \/ ForceCancel
  \/ CancelTasks
  \/ RedisClose
  \/ DbDisconnect
  \/ CloseDb
  \/ WatchdogIterate
  \/ \E t \in Tasks : TaskObserveCancel(t)
  \/ \E t \in Tasks : TaskExit(t)

Spec == Init /\ [][Next]_vars

TypeOK ==
  /\ pc \in { StartupOrder[i] : i \in 1..Len(StartupOrder) }
            \cup { ShutdownOrder[i] : i \in 1..Len(ShutdownOrder) }
            \cup { "yield", "stopped", "raised" }
  /\ production \in BOOLEAN
  /\ ready \in BOOLEAN
  /\ is_shutting_down \in BOOLEAN
  /\ handle \in [Handles -> BOOLEAN]
  /\ tasks \in [Tasks -> { "absent" } \cup Alive \cup Ended]
  /\ watchdog_runs \in 0..MaxRuns
  /\ sleep_left \in 0..GracePeriod
  /\ res \in [Resources -> { "Uninitialized", "Ready", "Closed" }]
  /\ failed \subseteq attempted

\* Steps that have been executed and returned.
Completed == attempted \ failed

\* Background tasks that have been created.
Started == { t \in Tasks : tasks[t] # "absent" }

\* C1: no background task is created before every Required initialization
\* step has completed successfully; if a Required step failed, no task exists.
C1_NoTaskBeforeRequired ==
  /\ Started # {} => RequiredSteps \subseteq Completed
  /\ failed \cap RequiredSteps # {} => Started = {}

\* C2: no resource handle is Closed while a started background task is still
\* running.
C2_NoCloseWhileTaskRunning ==
  (\E r \in Resources : res[r] = "Closed") =>
    \A t \in Tasks : tasks[t] \notin Alive

\* C3: when lifespan() reaches Stopped, every background task that was
\* started has been cancelled and has terminated; none is left running.
C3_AllTasksTerminatedAtStopped ==
  pc = "stopped" => \A t \in Tasks : tasks[t] \notin Alive

\* C4: whenever readiness has been signalled (the yield was reached), every
\* Required initialization step has completed successfully and the background
\* tasks have been created (the metrics publisher exactly in production mode).
C4_ReadyImpliesInitialized ==
  ready =>
    /\ RequiredSteps \subseteq Completed
    /\ Tasks \ { "worker_metrics" } \subseteq Started
    /\ ("worker_metrics" \in Started) <=> production

\* C4 witness: the service is at the yield in production mode with the
\* metrics publisher running.
C4_Witness ==
  /\ pc = "yield"
  /\ ready
  /\ production
  /\ tasks["worker_metrics"] = "running"

\* C5: if a Required initialization step fails, no step ordered after it is
\* executed, readiness is never signalled, and that failure leaves lifespan().
C5_RequiredFailureAborts ==
  \A s \in RequiredSteps :
    s \in failed =>
      /\ attempted \cap After(s) = {}
      /\ ~ready
      /\ pc = "raised"
      /\ err = s

\* C5 witness: sandbox_api.initialize raised in the middle of the sequence.
C5_Witness ==
  /\ "sandbox_initialize" \in failed
  /\ pc = "raised"
  /\ "select_1" \in attempted

\* C6: a failed BestEffort step (SELECT 1 probe, cache initialization, orphan
\* cleanup) is never the error that leaves lifespan(), the step after it is
\* run, and startup is aborted only by a Required step's failure.
C6_BestEffortFailureTolerated ==
  /\ \A s \in BestEffortSteps :
       s \in failed =>
         /\ err # s
         /\ Succ(s) \in attempted \/ pc = Succ(s)
  /\ (pc = "raised" /\ ~ready) => err \in RequiredSteps

\* C6 witness: all three BestEffort steps failed and readiness was signalled.
C6_Witness ==
  /\ BestEffortSteps \subseteq failed
  /\ ready
  /\ pc = "yield"

C8_ReverseCloseOrder ==
  \A i, j \in 1..Len(acquireLog) :
    ( /\ i < j
      /\ IndexOf(closeLog, acquireLog[i]) > 0
      /\ IndexOf(closeLog, acquireLog[j]) > 0 )
    => IndexOf(closeLog, acquireLog[j]) < IndexOf(closeLog, acquireLog[i])

\* C9: a failed resource-close step is contained: the failure does not leave
\* lifespan(), and once lifespan() has ended every close step was attempted
\* and Stopped was reached.
C9_CloseFailureContained ==
  \A s \in CloseSteps :
    s \in failed =>
      /\ err = "none"
      /\ pc \in CloseSteps \cup { "stopped" }
      /\ pc = "stopped" => CloseSteps \subseteq attempted

\* C10: when the grace-period sleep is interrupted by a cancellation, the
\* background tasks are still cancelled and the resource handles still closed
\* before lifespan() ends.
C10_ForcedShutdownKeepsOrder ==
  err = "CancelledError" =>
    /\ "cancel_tasks" \in attempted
    /\ CloseSteps \subseteq attempted

\* The lifecycle phase lifespan() is in, as a rank: Starting (acquiring the
\* database handles), Initializing, Running, Draining, ShuttingDown, Stopped.
Phase(p) ==
  CASE p \in { "db_initialize", "init_db" } -> 1
    [] p \in { StartupOrder[i] : i \in 3..Len(StartupOrder) } -> 2
    [] p = "yield" -> 3
    [] p = "sleep" -> 4
    [] p \in { "cancel_tasks", "redis_close", "db_disconnect", "close_db" } -> 5
    [] OTHER -> 6

\* C11: the shutdown flag, once set, is never cleared, and the lifecycle
\* phases are only traversed forward: no step returns to an earlier phase.
C11_ShutdownMonotonic ==
  [][ /\ is_shutting_down => is_shutting_down'
      /\ Phase(pc') >= Phase(pc) ]_vars

\* C11 witness: lifespan() has returned after a complete shutdown, the flag
\* still set.
C11_Witness ==
  /\ pc = "stopped"
  /\ is_shutting_down
  /\ CloseSteps \subseteq attempted

\* C12: once the shutdown flag is set, no background task is created and no
\* started periodic task begins a new iteration.
C12_NoNewWorkAfterShutdown ==
  [][ is_shutting_down =>
        /\ \A t \in Tasks : tasks[t] = "absent" => tasks'[t] = "absent"
        /\ watchdog_runs' = watchdog_runs ]_vars

C19_TaskFailureContained ==
  [][ /\ \A t \in Tasks :
           (tasks[t] = "running" /\ tasks'[t] = "failed") =>
             /\ pc' = pc
             /\ err' = err
             /\ is_shutting_down' = is_shutting_down
             /\ \A u \in Tasks \ {t} : tasks'[u] = tasks[u]
      /\ \A t \in Tasks : tasks[t] = "failed" => tasks'[t] = "failed"
      /\ (tasks["memory_watchdog"] = "cancelling"
            /\ tasks'["memory_watchdog"] # "cancelling")
         => tasks'["memory_watchdog"] = "finished" ]_vars

\* C19 witness: the stream cleanup task failed while the service was running
\* and the watchdog later returned on its cancellation.
C19_Witness ==
  /\ tasks["stream_cleanup"] = "failed"
  /\ tasks["pool_service"] = "running"
  /\ tasks["memory_watchdog"] = "finished"

\* C20: the shutdown statements run only after readiness was signalled; when
\* a Required startup step fails the flag stays false, no task is cancelled,
\* no handle is closed, and the error is logged once and re-raised.
C20_NoShutdownOnAbortedStartup ==
  /\ ( \/ is_shutting_down
       \/ attempted \cap { ShutdownOrder[i] : i \in 1..Len(ShutdownOrder) } # {}
       \/ closeLog # << >> ) => ready
  /\ \A s \in RequiredSteps :
       s \in failed =>
         /\ ~is_shutting_down
         /\ attempted \cap { ShutdownOrder[i] : i \in 1..Len(ShutdownOrder) } = {}
         /\ closeLog = << >>
         /\ \A r \in Resources : res[r] # "Closed"
         /\ \A t \in Tasks : tasks[t] \notin { "cancelling", "cancelled" }
         /\ logged = << s >>
         /\ err = s
         /\ pc = "raised"

\* C20 witness: lifecycle.initialize raised with the tasks created and the
\* database handles acquired; they are left as they were.
C20_Witness ==
  /\ "lifecycle_initialize" \in failed
  /\ pc = "raised"
  /\ tasks["memory_watchdog"] = "running"
  /\ res["db"] = "Ready"
  /\ res["pool"] = "Ready"

(***************************************************************************)
(* fix_paths_middleware.  A path "/a/b/c" is the sequence of its segments  *)
(* << "a", "b", "c" >>; every segment is preceded by one "/".  The segment *)
(* "x" stands for any segment that is none of the named ones.              *)
(***************************************************************************)

\* Segments request paths are built from.
Segments == { "v1", "agent-run", "agent-runs", "thread", "threads", "x" }

\* The request paths of at most n segments.
PathsUpTo(n) == UNION { [1..k -> Segments] : k \in 1..n }

\* The plural segment a singular segment is rewritten to.
Plural(sing) == IF sing = "agent-run" THEN "agent-runs" ELSE "threads"

\* path.startswith("/v1/<sing>/"): the two segments and the "/" after them.
StartsWith(path, sing) ==
  /\ Len(path) >= 3
  /\ path[1] = "v1"
  /\ path[2] = sing

\* str.replace("/v1/<sing>/", "/v1/<plural>/"): every non-overlapping
\* occurrence, scanning from the left.  An occurrence takes the "/" in front
\* of its first segment and the "/" behind its second, so the segment right
\* behind a replaced occurrence cannot begin another one (slash is FALSE).
RECURSIVE Replace(_, _, _)
Replace(path, sing, slash) ==
  IF path = << >>
  THEN << >>
  ELSE IF slash /\ StartsWith(path, sing)
       THEN << "v1", Plural(sing) >> \o Replace(Tail(Tail(path)), sing, FALSE)
       ELSE << Head(path) >> \o Replace(Tail(path), sing, TRUE)

\* The rewrite without the startswith tests: both replacements are applied
\* to every path.
FixPath_noguard(path) ==
  Replace(Replace(path, "agent-run", TRUE), "thread", TRUE)

\* The value fix_paths_middleware leaves in request.scope["path"].
FixPath(path) ==
  IF StartsWith(path, "agent-run")
  THEN Replace(path, "agent-run", TRUE)
  ELSE IF StartsWith(path, "thread")
       THEN Replace(path, "thread", TRUE)
       ELSE path

\* lifespan() is suspended at its yield after a startup in which every call
\* returned: the state in which requests are served.
Serving ==
  /\ pc = "yield"
  /\ production \in BOOLEAN
  /\ attempted = { StartupOrder[i] : i \in 1..Len(StartupOrder) }
  /\ failed = {}
  /\ ready = TRUE
  /\ is_shutting_down = FALSE
  /\ handle = [h \in Handles |-> h # "worker_metrics" \/ production]
  /\ tasks = [t \in Tasks |->
                IF t = "worker_metrics" /\ ~production THEN "absent"
                                                       ELSE "running"]
  /\ watchdog_runs = 0
  /\ sleep_left = 0
  /\ res = [r \in Resources |-> "Ready"]
  /\ acquireLog = << "db", "pool", "cache" >>
  /\ closeLog = << >>
  /\ logged = << >>
  /\ err = "none"

\* The variables of lifespan() and of the background tasks.
serviceVars ==
  << pc, production, attempted, failed, ready, is_shutting_down, handle,
     tasks, watchdog_runs, sleep_left, res, acquireLog, closeLog, logged, err >>

\* A request path arrives at fix_paths_middleware.
PathInit ==
  /\ Serving
  /\ req_path \in PathsUpTo(MaxSegs)
  /\ scope_path = req_path
  /\ applied = 0
  /\ PipelineIdle

\* The rewrite of fix_paths_middleware is applied to the effective path.
ApplyFixPath ==
  /\ applied < MaxApply
  /\ scope_path' = FixPath(scope_path)
  /\ applied' = applied + 1
  /\ UNCHANGED req_path
  /\ UNCHANGED pipelineVars
  /\ UNCHANGED serviceVars

PathNext == ApplyFixPath

PathSpec == PathInit /\ [][PathNext]_vars

\* A path that already has a plural prefix.
IsPlural(path) ==
  Len(path) >= 3 /\ path[1] = "v1" /\ path[2] \in { "agent-runs", "threads" }

\* C15: the rewrite is idempotent (its output is left unchanged by a second
\* application), a path with a plural prefix is returned unchanged, and a
\* path with a singular prefix comes out with the plural prefix.
C15_FixPathIdempotent ==
  /\ applied >= 1 => FixPath(scope_path) = scope_path
  /\ IsPlural(req_path) => scope_path = req_path
  /\ \A sing \in { "agent-run", "thread" } :
       (applied >= 1 /\ StartsWith(req_path, sing)) =>
         /\ Len(scope_path) = Len(req_path)
         /\ SubSeq(scope_path, 1, 2) = << "v1", Plural(sing) >>

\* C15 witness: a singular path has been rewritten and the rewrite applied
\* again to the result.
C15_Witness ==
  /\ applied = 2
  /\ req_path = << "v1", "thread", "x" >>
  /\ scope_path = << "v1", "threads", "x" >>

\* C16: only the leading singular prefix is rewritten, once; the rest of the
\* path, later occurrences of the singular segment included, is unchanged,
\* and a path without a singular prefix is unchanged.
C16_OnlyLeadingPrefixRewritten ==
  applied = 1 =>
    /\ \A sing \in { "agent-run", "thread" } :
         StartsWith(req_path, sing) =>
           scope_path = << "v1", Plural(sing) >>
                          \o SubSeq(req_path, 3, Len(req_path))
    /\ (~StartsWith(req_path, "agent-run") /\ ~StartsWith(req_path, "thread"))
         => scope_path = req_path

(***************************************************************************)
(* The middleware stack.  A request goes down through the middlewares to   *)
(* the router and its handler; the response, or the exception, comes back  *)
(* up through them.  One request is followed at a time.                    *)
(***************************************************************************)

\* The two decorators registered in the opposite order.
MiddlewareStack_swapped == << "fix_paths", "log_requests" >>

\* The http middlewares, outermost first.  @app.middleware("http") puts each
\* new middleware in front of the ones registered before it, so
\* log_requests_middleware (registered second) wraps fix_paths_middleware.
\* CORSMiddleware, registered last, is outside both and passes everything on.
MiddlewareStack == << "log_requests", "fix_paths" >>

\* Status codes a handler answers with.
Statuses == { 200, 399, 400, 500 }

\* Exceptions a handler lets escape (subclasses of Exception).
Exceptions == { "ValueError", "RuntimeError" }

\* The middleware the request enters next on its way down.
Entering(name) ==
  /\ dir = "down"
  /\ depth < Len(MiddlewareStack)
  /\ MiddlewareStack[depth + 1] = name

\* The middleware whose call_next has just returned or raised.
Returning(name) ==
  /\ dir = "up"
  /\ depth >= 1
  /\ MiddlewareStack[depth] = name

\* A request arrives at the middleware stack.
Receive ==
  /\ dir = "idle"
  /\ req_no < MaxRequests
  /\ \E p \in PathsUpTo(MaxReqSegs) :
       /\ req_path' = p
       /\ scope_path' = p
  /\ req_no' = req_no + 1
  /\ dir' = "down"
  /\ UNCHANGED << applied, depth, clock, start_time, handled, response,
                  raised_exc, routed_path, req_log, process_time, ctx >>
  /\ UNCHANGED serviceVars

\* log_requests_middleware up to its call_next:
\* structlog.contextvars.clear_contextvars(); start_time = time.time()
LogEnter ==
  /\ Entering("log_requests")
  /\ ctx' = {}
  /\ start_time' = clock
  /\ depth' = depth + 1
  /\ UNCHANGED << req_path, scope_path, applied, req_no, dir, clock, handled,
                  response, raised_exc, routed_path, req_log, process_time >>
  /\ UNCHANGED serviceVars

\* fix_paths_middleware up to its call_next: the rewrite of the scope path.
\* The work takes one tick.
FixPathsEnter ==
  /\ Entering("fix_paths")
  /\ scope_path' = FixPath(scope_path)
  /\ applied' = applied + 1
  /\ clock' = clock + 1
  /\ depth' = depth + 1
  /\ UNCHANGED << req_path, req_no, dir, start_time, handled, response,
                  raised_exc, routed_path, req_log, process_time, ctx >>
  /\ UNCHANGED serviceVars

\* The router matches scope["path"] and the handler runs: it answers with a
\* status or lets an exception escape, takes some time, and may bind
\* structlog context variables.
Handle ==
  /\ dir = "down"
  /\ depth = Len(MiddlewareStack)
  /\ routed_path' = scope_path
  /\ \E d \in 1..MaxDuration :
       /\ clock' = clock + d
       /\ \/ \E st \in Statuses :
               /\ handled' = [status |-> st, exc |-> "none", dur |-> d]
               /\ response' = st
               /\ raised_exc' = "none"
          \/ \E e \in Exceptions :
               /\ handled' = [status |-> 0, exc |-> e, dur |-> d]
               /\ response' = 0
               /\ raised_exc' = e
  /\ \E bind \in BOOLEAN : ctx' = IF bind THEN ctx \cup {req_no} ELSE ctx
  /\ dir' = "up"
  /\ UNCHANGED << req_path, scope_path, applied, req_no, depth, start_time,
                  req_log, process_time >>
  /\ UNCHANGED serviceVars

\* fix_paths_middleware after its call_next:  return response ; an exception
\* passes through.
FixPathsReturn ==
  /\ Returning("fix_paths")
  /\ depth' = depth - 1
  /\ UNCHANGED << req_path, scope_path, applied, req_no, dir, clock,
                  start_time, handled, response, raised_exc, routed_path,
                  req_log, process_time, ctx >>
  /\ UNCHANGED serviceVars

\* A log entry of log_requests_middleware.  request.url is built from the
\* scope when it is first read, which is here.
StatusEntry ==
  [event |-> "status", path |-> scope_path, status |-> response,
   time |-> clock - start_time, exc |-> "none"]

\* The entry of the except clause.
FailedEntry ==
  [event |-> "failed", path |-> << >>, status |-> 0, time |-> 0,
   exc |-> raised_exc]

\* The status test written with > instead of >= .
LogReturn_gt400 ==
  /\ Returning("log_requests")
  /\ depth' = depth - 1
  /\ IF raised_exc # "none"
     THEN /\ req_log' = Append(req_log, FailedEntry)
          /\ UNCHANGED << process_time, response, raised_exc >>
     ELSE /\ process_time' = clock - start_time
          /\ req_log' = IF response > 400 THEN Append(req_log, StatusEntry)
                                          ELSE req_log
          /\ UNCHANGED << response, raised_exc >>
  /\ UNCHANGED << req_path, scope_path, applied, req_no, dir, clock,
                  start_time, handled, routed_path, ctx >>
  /\ UNCHANGED serviceVars

\* The except clause answering with a 500 response instead of re-raising.
LogReturn_swallow ==
  /\ Returning("log_requests")
  /\ depth' = depth - 1
  /\ IF raised_exc # "none"
     THEN /\ req_log' = Append(req_log, FailedEntry)
          /\ response' = 500
          /\ raised_exc' = "none"
          /\ UNCHANGED process_time
     ELSE /\ process_time' = clock - start_time
          /\ req_log' = IF response >= 400 THEN Append(req_log, StatusEntry)
                                           ELSE req_log
          /\ UNCHANGED << response, raised_exc >>
  /\ UNCHANGED << req_path, scope_path, applied, req_no, dir, clock,
                  start_time, handled, routed_path, ctx >>
  /\ UNCHANGED serviceVars

\* log_requests_middleware after its call_next.  On a response:
\*   process_time = time.time() - start_time
\*   if response.status_code >= 400: logger.error(...)
\*   return response
\* On an exception:  logger.error(f"Request failed: ..."); raise
LogReturn ==
  /\ Returning("log_requests")
  /\ depth' = depth - 1
  /\ IF raised_exc # "none"
     THEN /\ req_log' = Append(req_log, FailedEntry)
          /\ UNCHANGED << process_time, response, raised_exc >>
     ELSE /\ process_time' = clock - start_time
          /\ req_log' = IF response >= 400 THEN Append(req_log, StatusEntry)
                                           ELSE req_log
          /\ UNCHANGED << response, raised_exc >>
  /\ UNCHANGED << req_path, scope_path, applied, req_no, dir, clock,
                  start_time, handled, routed_path, ctx >>
  /\ UNCHANGED serviceVars

\* The response, or the exception, leaves the outermost of the middlewares.
Complete ==
  /\ dir = "up"
  /\ depth = 0
  /\ dir' = "done"
  /\ UNCHANGED << req_path, scope_path, applied, req_no, depth, clock,
                  start_time, handled, response, raised_exc, routed_path,
                  req_log, process_time, ctx >>
  /\ UNCHANGED serviceVars

\* The finished request and its scope are dropped; the worker, and with it
\* the structlog context, stays for the next request.
Release ==
  /\ dir = "done"
  /\ dir' = "idle"
  /\ req_path' = << >>
  /\ scope_path' = << >>
  /\ applied' = 0
  /\ clock' = 0
  /\ start_time' = 0
  /\ handled' = NotHandled
  /\ response' = 0
  /\ raised_exc' = "none"
  /\ routed_path' = << >>
  /\ req_log' = << >>
  /\ process_time' = 0
  /\ UNCHANGED << req_no, depth, ctx >>
  /\ UNCHANGED serviceVars

ReqInit ==
  /\ Serving
  /\ RequestIdle

ReqNext ==
  \/ Receive
  \/ LogEnter
  \/ FixPathsEnter
  \/ Handle
  \/ FixPathsReturn
  \/ LogReturn
  \/ Complete
  \/ Release

ReqSpec == ReqInit /\ [][ReqNext]_vars

\* The request has left the middleware stack.
RequestDone == dir = "done"

\* C13: a request that completes with a response leaves no log entry when
\* the status is below 400 (so in particular when it is successful and fast)
\* and exactly one entry, carrying that status, when the status is 400 or
\* more, whatever the time the handler took.
C13_LogOnlyErrors ==
  (RequestDone /\ handled.status # 0) =>
    /\ handled.status < 400 => req_log = << >>
    /\ handled.status >= 400 =>
         /\ Len(req_log) = 1
         /\ req_log[1].event = "status"
         /\ req_log[1].status = handled.status

\* C13 witness: a request answered 400 by a slow handler has completed with
\* its one log entry.
C13_Witness ==
  /\ RequestDone
  /\ handled.status = 400
  /\ handled.dur = MaxDuration
  /\ Len(req_log) = 1

\* C14: when the handler lets an exception escape, the middleware logs it
\* once and the same exception leaves the stack, with no response in its
\* place; and from the moment log_requests_middleware has been entered the
\* structlog context holds nothing bound by an earlier request.
C14_FailureLoggedAndReraised ==
  /\ (RequestDone /\ handled.exc # "none") =>
       /\ raised_exc = handled.exc
       /\ response = 0
       /\ Len(req_log) = 1
       /\ req_log[1].event = "failed"
       /\ req_log[1].exc = handled.exc
  /\ (dir \in { "down", "up" } /\ (depth >= 1 \/ dir = "up")) =>
       ctx \subseteq { req_no }

\* C14 witness: the second request on a worker whose context was bound by
\* the first one ends with its handler's exception re-raised.
C14_Witness ==
  /\ RequestDone
  /\ req_no = 2
  /\ handled.exc = "RuntimeError"
  /\ raised_exc = "RuntimeError"
  /\ ctx = {}

\* C17: the router and the log entry both see the rewritten path, and the
\* time log_requests_middleware measures covers the path rewrite and the
\* handler: normalization happens inside the logging middleware's call_next.
C17_MiddlewareOrder ==
  /\ handled # NotHandled => routed_path = FixPath(req_path)
  /\ \A i \in 1..Len(req_log) :
       req_log[i].event = "status" => req_log[i].path = FixPath(req_path)
  /\ (RequestDone /\ handled.status # 0) =>
       /\ applied = 1
       /\ process_time = 1 + handled.dur
       /\ \A i \in 1..Len(req_log) :
            req_log[i].event = "status" => req_log[i].time = 1 + handled.dur

\* C17 witness: a singular path was rewritten, routed and logged with a 500.
C17_Witness ==
  /\ RequestDone
  /\ req_path = << "v1", "thread", "x" >>
  /\ routed_path = << "v1", "threads", "x" >>
  /\ handled.status = 500
  /\ Len(req_log) = 1
  /\ req_log[1].path = << "v1", "threads", "x" >>

====
